---- MODULE Spec2Model ----
(***************************************************************************)
(* Model of the read-only-traits admission webhook (src/main.go).          *)
(*                                                                         *)
(* webhookHandler decodes a change-set, asks the schema registry which     *)
(* traits carry the "zolfa.dev/kratos-readonly" annotation, compares the   *)
(* proposed value of each such trait with the prior one and answers        *)
(* 200, 409, 400 or 500.  A run-time panic inside the handler is caught by *)
(* net/http, which drops the connection without sending a response.        *)
(***************************************************************************)
EXTENDS Naturals, Sequences, FiniteSets

VARIABLES
    pc,               \* position of webhookHandler in the request being served
    body,             \* r.Body, the bytes of the request as a JSON document
    payload,          \* the decoded WebhookRequest
    immutableTraits,  \* the set returned by fetchSchemaImmutableTraits
    lookupErr,        \* the error returned by fetchSchemaImmutableTraits
    remaining,        \* traits the range loop has not visited yet
    response,         \* response.Messages
    w,                \* the http.ResponseWriter
    trail,            \* the stages of the handler this request went through
    registry,         \* KRATOS_PUBLIC_URL and the registry's answer to this request
    inputs,           \* immutable set, old and new traits given to two runs of the check
    checks            \* the two runs of the check on those inputs

vars == <<pc, body, payload, immutableTraits, lookupErr, remaining, response,
          w, trail, registry, inputs, checks>>

handlerVars == <<pc, body, payload, immutableTraits, lookupErr, remaining,
                 response, w, trail, registry>>

pairVars == <<inputs, checks>>

(***************************************************************************)
(* JSON values as encoding/json decodes them into interface{}: the dynamic *)
(* type t, the scalar content (s for strings, n for numbers and booleans)  *)
(* and, for objects and arrays, the members.                               *)
(***************************************************************************)
Nil == [t |-> "nil", s |-> "", n |-> 0, elems |-> <<>>]

JStr(x) == [t |-> "string", s |-> x, n |-> 0, elems |-> <<>>]

JNum(x) == [t |-> "float64", s |-> "", n |-> x, elems |-> <<>>]

JBool(b) == [t |-> "bool", s |-> "", n |-> IF b THEN 1 ELSE 0, elems |-> <<>>]

JObj(k, x) == [t |-> "map", s |-> "", n |-> 0, elems |-> <<[k |-> k, s |-> x]>>]

JArr(x) == [t |-> "slice", s |-> "", n |-> 0, elems |-> <<[k |-> "", s |-> x]>>]

\* The names of the traits that requests and schemas mention.
TraitNames == {"email", "username"}

\* The number of distinct string contents a trait value is drawn from.
NumStrings == 2

StringPool == <<"a@x.com", "b@x.com", "c@x.com", "d@x.com">>

Strings == {StringPool[i] : i \in 1..NumStrings}

Scalars == {JStr(x) : x \in Strings} \cup {JNum(1), JBool(TRUE), Nil}

Values == Scalars \cup {JObj("k", x) : x \in Strings} \cup {JArr(StringPool[1])}

\* A JSON object of traits: a Go map[string]any.
TraitMaps == UNION {[D -> Values] : D \in SUBSET TraitNames}

NoTraits == [a \in {} |-> Nil]

(***************************************************************************)
(* Request bodies.  A body is either not JSON at all (syntax = FALSE) or a *)
(* JSON object whose three members each have a JSON kind.                  *)
(***************************************************************************)
Member(kind, str, map) == [t |-> kind, s |-> str, m |-> map]

Absent == Member("absent", "", NoTraits)

Body(ok, id, old, new) ==
    [syntax |-> ok, schema_id |-> id, old_traits |-> old, new_traits |-> new]

SchemaIDs == {"schema123"}

GoodBodies ==
    {Body(TRUE, Member("string", id, NoTraits), Member("object", "", o), Member("object", "", n)) :
        id \in SchemaIDs, o \in TraitMaps, n \in TraitMaps}
    \cup {Body(TRUE, Member("string", id, NoTraits), old, Member("object", "", n)) :
        id \in SchemaIDs, old \in {Absent, Member("null", "", NoTraits)}, n \in TraitMaps}
    \cup {Body(TRUE, Absent, Absent, Absent)}

BadBodies ==
    {Body(FALSE, Absent, Absent, Absent),
     Body(TRUE, Member("number", "", NoTraits), Absent, Absent),
     Body(TRUE, Member("string", "schema123", NoTraits), Member("array", "", NoTraits), Absent),
     Body(TRUE, Member("string", "schema123", NoTraits), Absent, Member("string", "x", NoTraits))}

Bodies == GoodBodies \cup BadBodies

\* json.Decoder.Decode into WebhookRequest: a syntax error, or a member whose
\* JSON kind does not fit the field's Go type, is an error; null and a
\* missing member leave the field at its zero value.
DecodeFails(b) ==
    \/ ~b.syntax
    \/ b.schema_id.t \notin {"string", "null", "absent"}
    \/ b.old_traits.t \notin {"object", "null", "absent"}
    \/ b.new_traits.t \notin {"object", "null", "absent"}

Decoded(b) ==
    [SchemaID  |-> IF b.schema_id.t = "string" THEN b.schema_id.s ELSE "",
     OldTraits |-> IF b.old_traits.t = "object" THEN b.old_traits.m ELSE NoTraits,
     NewTraits |-> IF b.new_traits.t = "object" THEN b.new_traits.m ELSE NoTraits]

ZeroPayload == [SchemaID |-> "", OldTraits |-> NoTraits, NewTraits |-> NoTraits]

(***************************************************************************)
(* The schema registry.  A configuration is the value of KRATOS_PUBLIC_URL *)
(* together with what the registry does with the GET: whether it can be    *)
(* reached, which schema it serves and with which status, whether the      *)
(* answer parses as a KratosSchema, and the properties of each trait.      *)
(***************************************************************************)
\* The properties of one trait: the annotation is missing (has = FALSE) or
\* carries a JSON value.
Props(has, val) == [has |-> has, val |-> val]

Annotations ==
    {Props(FALSE, Nil)}
    \cup {Props(TRUE, v) : v \in {JBool(TRUE), JBool(FALSE), JStr("true"), JNum(1), Nil}}

Schemas == UNION {[D -> Annotations] : D \in SUBSET TraitNames}

NoSchema == [a \in {} |-> Props(FALSE, Nil)]

Config(url, reach, serves, code, parse, props) ==
    [url |-> url, reach |-> reach, serves |-> serves, code |-> code,
     parse |-> parse, props |-> props]

StatusOK == 200

StatusBadRequest == 400

StatusNotFound == 404

StatusConflict == 409

StatusInternalServerError == 500

Configs ==
    {Config("http://kratos", TRUE, "schema123", StatusOK, TRUE, p) : p \in Schemas}
    \cup {Config("", TRUE, "schema123", StatusOK, TRUE, NoSchema),
          Config("http://kratos", FALSE, "schema123", StatusOK, TRUE, NoSchema),
          Config("http://kratos", TRUE, "schema123", StatusInternalServerError, TRUE, NoSchema),
          Config("http://kratos", TRUE, "schema123", StatusOK, FALSE, NoSchema)}

\* The status of the registry's answer to GET <url>/schemas/<schemaID>.
RegistryStatus(cfg, schemaID) ==
    IF schemaID = cfg.serves THEN cfg.code ELSE StatusNotFound

\* What a call of fetchSchemaImmutableTraits yields: a panic, or the error and
\* the set it returns.
Fetched(panic, err, set) == [panic |-> panic, err |-> err, set |-> set]

\* immutable.(bool) on a value whose dynamic type is not bool panics.
AssertBoolPanics(props) == props.has /\ props.val.t # "bool"

\* Variant: the annotation counts whenever it is present and a boolean.
IsReadOnlyAnyBool(props) == props.has /\ props.val.t = "bool"

\* ok && immutable.(bool)
IsReadOnly(props) == props.has /\ props.val.t = "bool" /\ props.val.n = 1

\* Variant: the status of the registry's answer is not looked at.
fetchIgnoringStatus(schemaID, cfg) ==
    IF cfg.url = ""
    THEN Fetched(FALSE, <<"Kratos URL is not set">>, {})
    ELSE IF ~cfg.reach
    THEN Fetched(FALSE, <<"failed to fetch schema: ", "connection refused">>, {})
    ELSE IF ~cfg.parse
    THEN Fetched(FALSE, <<"failed to decode schema: ", "invalid character">>, {})
    ELSE IF \E trait \in DOMAIN cfg.props : AssertBoolPanics(cfg.props[trait])
    THEN Fetched(TRUE, <<>>, {})
    ELSE Fetched(FALSE, <<>>,
                 {trait \in DOMAIN cfg.props : IsReadOnly(cfg.props[trait])})

fetchSchemaImmutableTraits(schemaID, cfg) ==
    IF cfg.url = ""
    THEN Fetched(FALSE, <<"Kratos URL is not set">>, {})
    ELSE IF ~cfg.reach
    THEN Fetched(FALSE, <<"failed to fetch schema: ", "connection refused">>, {})
    ELSE IF RegistryStatus(cfg, schemaID) # StatusOK
    THEN Fetched(FALSE, <<"failed to fetch schema: ", "<nil>">>, {})
    ELSE IF ~cfg.parse
    THEN Fetched(FALSE, <<"failed to decode schema: ", "invalid character">>, {})
    ELSE IF \E trait \in DOMAIN cfg.props : AssertBoolPanics(cfg.props[trait])
    THEN Fetched(TRUE, <<>>, {})
    ELSE Fetched(FALSE, <<>>,
                 {trait \in DOMAIN cfg.props : IsReadOnly(cfg.props[trait])})

(***************************************************************************)
(* The http.ResponseWriter: the status the client sees is the one of the   *)
(* first WriteHeader; later calls are superfluous and only counted.        *)
(***************************************************************************)
NoBody == [text |-> <<>>, json |-> <<>>]

NewWriter == [status |-> 0, headerWrites |-> 0, contentType |-> "", body |-> NoBody]

WriteHeader(rw, code) ==
    [rw EXCEPT !.status = IF rw.headerWrites = 0 THEN code ELSE @,
               !.headerWrites = @ + 1]

\* http.Error(w, msg, code)
HttpError(rw, msg, code) ==
    [WriteHeader([rw EXCEPT !.contentType = "text/plain; charset=utf-8"], code)
        EXCEPT !.body = [text |-> msg, json |-> <<>>]]

\* json.NewEncoder(w).Encode(response): the fields under their JSON names.
Encode(messages) ==
    [i \in 1..Len(messages) |->
        [instance_ptr |-> messages[i].InstancePtr,
         messages |-> [j \in 1..Len(messages[i].Messages) |->
                          [id   |-> messages[i].Messages[j].ID,
                           text |-> messages[i].Messages[j].Text,
                           type |-> messages[i].Messages[j].Type]]]]

ReadOnlyMessageID == 1377

\* "#/traits/" + trait
Pointer(trait) == <<"#/traits/", trait>>

\* Variant: the pointer does not name the trait.
TopMessageBarePointer(trait) ==
    [InstancePtr |-> <<"#/traits/">>,
     Messages |-> <<[ID |-> ReadOnlyMessageID, Text |-> "Element is read-only.",
                     Type |-> "conflict"]>>]

\* The container appended for a trait that was changed.
TopMessage(trait) ==
    [InstancePtr |-> Pointer(trait),
     Messages |-> <<[ID |-> ReadOnlyMessageID, Text |-> "Element is read-only.",
                     Type |-> "conflict"]>>]

(***************************************************************************)
(* Comparison of two interface values with != : values of different        *)
(* dynamic types differ; values of the same uncomparable dynamic type      *)
(* (map, slice) make the comparison panic.                                 *)
(***************************************************************************)
\* m[k] on a Go map: the zero value, nil, when the key is missing.
Index(m, k) == IF k \in DOMAIN m THEN m[k] ELSE Nil

ComparePanics(x, y) == x.t = y.t /\ x.t \in {"map", "slice"}

NotEqual(x, y) == x.t # y.t \/ x.s # y.s \/ x.n # y.n

\* Variant: the new value is compared even when it is nil.
IsSetAlways(new, trait) == TRUE

\* payload.NewTraits[trait] != nil, the left operand of &&
IsSet(new, trait) == Index(new, trait) # Nil

\* The condition of line 107 panics.
CheckPanics(old, new, trait) ==
    IsSet(new, trait) /\ ComparePanics(Index(new, trait), Index(old, trait))

\* The condition of line 107 is true.
Changed(old, new, trait) ==
    IsSet(new, trait) /\ NotEqual(Index(new, trait), Index(old, trait))

(***************************************************************************)
(* webhookHandler, one request at a time.                                  *)
(***************************************************************************)
NoRequest == Body(FALSE, Absent, Absent, Absent)

NoRegistry == Config("", FALSE, "", StatusOK, FALSE, NoSchema)

\* The two runs of the check that are compared, and a run before its loop.
Runs == {1, 2}

NewRun(immutable) ==
    [pc |-> "range", remaining |-> immutable, response |-> <<>>, w |-> NewWriter]

NoInputs == [immutable |-> {}, old |-> NoTraits, new |-> NoTraits]

InitHandler ==
    /\ pc = "idle"
    /\ body = NoRequest
    /\ payload = ZeroPayload
    /\ immutableTraits = {}
    /\ lookupErr = <<>>
    /\ remaining = {}
    /\ response = <<>>
    /\ w = NewWriter
    /\ trail = <<>>
    /\ registry = NoRegistry

Init ==
    /\ InitHandler
    /\ inputs = NoInputs
    /\ checks = [i \in Runs |-> NewRun({})]

\* Variant: no return after the 400 answer.
DecodeRequestNoReturn ==
    /\ pc = "idle"
    /\ \E b \in Bodies :
        /\ body' = b
        /\ trail' = <<"decode">>
        /\ pc' = "lookup"
        /\ IF DecodeFails(b)
           THEN /\ w' = HttpError(w, <<"Invalid JSON", "\n">>, StatusBadRequest)
                /\ payload' = ZeroPayload
           ELSE /\ payload' = Decoded(b)
                /\ w' = w
    /\ UNCHANGED <<immutableTraits, lookupErr, remaining, response, registry, pairVars>>

\* Lines 87-94: decode the request; a body that does not decode is answered
\* with 400 and the handler returns.
DecodeRequest ==
    /\ pc = "idle"
    /\ \E b \in Bodies :
        /\ body' = b
        /\ trail' = <<"decode">>
        /\ IF DecodeFails(b)
           THEN /\ w' = HttpError(w, <<"Invalid JSON", "\n">>, StatusBadRequest)
                /\ pc' = "done"
                /\ payload' = ZeroPayload
           ELSE /\ payload' = Decoded(b)
                /\ pc' = "lookup"
                /\ w' = w
    /\ UNCHANGED <<immutableTraits, lookupErr, remaining, response, registry, pairVars>>

\* Lines 96-104: look the schema up; an error is answered with 500 and the
\* handler returns, otherwise the response is allocated and the loop starts.
FetchSchema ==
    /\ pc = "lookup"
    /\ \E cfg \in Configs :
        LET r == fetchSchemaImmutableTraits(payload.SchemaID, cfg) IN
        /\ registry' = cfg
        /\ trail' = Append(trail, "lookup")
        /\ IF r.panic
           THEN /\ pc' = "panicked"
                /\ UNCHANGED <<immutableTraits, lookupErr, remaining, w>>
           ELSE IF r.err # <<>>
           THEN /\ lookupErr' = r.err
                /\ w' = HttpError(w, <<"Failed to obtain schema immutable traits: ">>
                                       \o r.err \o <<"\n">>,
                                  StatusInternalServerError)
                /\ pc' = "done"
                /\ UNCHANGED <<immutableTraits, remaining>>
           ELSE /\ immutableTraits' = r.set
                /\ remaining' = r.set
                /\ pc' = "range"
                /\ UNCHANGED <<lookupErr, w>>
    /\ UNCHANGED <<body, payload, response, pairVars>>

\* Lines 106-120: one iteration of the range loop, over the traits of the
\* immutable set in the order the Go map yields them.
CheckTrait ==
    /\ pc = "range"
    /\ \E trait \in remaining :
        /\ trail' = Append(trail, "check")
        /\ IF CheckPanics(payload.OldTraits, payload.NewTraits, trait)
           THEN /\ pc' = "panicked"
                /\ UNCHANGED <<remaining, response>>
           ELSE /\ response' = IF Changed(payload.OldTraits, payload.NewTraits, trait)
                               THEN Append(response, TopMessage(trait))
                               ELSE response
                /\ remaining' = remaining \ {trait}
                /\ pc' = pc
    /\ UNCHANGED <<body, payload, immutableTraits, lookupErr, w, registry, pairVars>>

\* Lines 122-127: the conflict answer.
WriteConflict(rw, messages) ==
    [WriteHeader([rw EXCEPT !.contentType = "application/json"], StatusConflict)
        EXCEPT !.body = [text |-> <<>>, json |-> Encode(messages)]]

\* Lines 122-129: after the loop, answer; line 128 runs on every path.
Respond ==
    /\ pc = "range"
    /\ remaining = {}
    /\ trail' = Append(trail, "respond")
    /\ w' = IF Len(response) > 0
            THEN WriteHeader(WriteConflict(w, response), StatusOK)
            ELSE WriteHeader(w, StatusOK)
    /\ pc' = "done"
    /\ UNCHANGED <<body, payload, immutableTraits, lookupErr, remaining, response,
                   registry, pairVars>>

\* The handler has returned, or net/http has recovered its panic and closed
\* the connection; nothing of the request survives.
Finish ==
    /\ pc \in {"done", "panicked"}
    /\ pc' = "idle"
    /\ body' = NoRequest
    /\ payload' = ZeroPayload
    /\ immutableTraits' = {}
    /\ lookupErr' = <<>>
    /\ remaining' = {}
    /\ response' = <<>>
    /\ w' = NewWriter
    /\ trail' = <<>>
    /\ registry' = NoRegistry
    /\ UNCHANGED pairVars

Next ==
    \/ DecodeRequest
    \/ FetchSchema
    \/ CheckTrait
    \/ Respond
    \/ Finish

Spec == Init /\ [][Next]_vars

(***************************************************************************)
(* The check of lines 102-129 evaluated twice on the same immutable set,   *)
(* old_traits and new_traits, the two runs interleaved in any way: each    *)
(* has its own response and writer, and its own order over the Go map.     *)
(***************************************************************************)
InitPair ==
    /\ InitHandler
    /\ inputs \in [immutable : SUBSET TraitNames, old : TraitMaps, new : TraitMaps]
    /\ checks = [i \in Runs |-> NewRun(inputs.immutable)]

\* Variant: the loop is left after the first violation.
RunCheckTraitBreak(i) ==
    /\ checks[i].pc = "range"
    /\ \E trait \in checks[i].remaining :
        checks' = [checks EXCEPT ![i] =
            IF CheckPanics(inputs.old, inputs.new, trait)
            THEN [@ EXCEPT !.pc = "panicked"]
            ELSE IF Changed(inputs.old, inputs.new, trait)
            THEN [@ EXCEPT !.response = Append(@, TopMessage(trait)),
                           !.remaining = {}]
            ELSE [@ EXCEPT !.remaining = @ \ {trait}]]
    /\ UNCHANGED <<inputs, handlerVars>>

\* Lines 106-120 in run i: one iteration of the range loop.
RunCheckTrait(i) ==
    /\ checks[i].pc = "range"
    /\ \E trait \in checks[i].remaining :
        checks' = [checks EXCEPT ![i] =
            IF CheckPanics(inputs.old, inputs.new, trait)
            THEN [@ EXCEPT !.pc = "panicked"]
            ELSE [@ EXCEPT !.response = IF Changed(inputs.old, inputs.new, trait)
                                        THEN Append(@, TopMessage(trait))
                                        ELSE @,
                           !.remaining = @ \ {trait}]]
    /\ UNCHANGED <<inputs, handlerVars>>

\* Lines 122-129 in run i: the answer after the loop.
RunRespond(i) ==
    /\ checks[i].pc = "range"
    /\ checks[i].remaining = {}
    /\ checks' = [checks EXCEPT ![i] =
            [@ EXCEPT !.pc = "done",
                      !.w = IF Len(checks[i].response) > 0
                            THEN WriteHeader(WriteConflict(@, checks[i].response), StatusOK)
                            ELSE WriteHeader(@, StatusOK)]]
    /\ UNCHANGED <<inputs, handlerVars>>

NextPair ==
    \/ \E i \in Runs : RunCheckTrait(i)
    \/ \E i \in Runs : RunRespond(i)

SpecPair == InitPair /\ [][NextPair]_vars

(***************************************************************************)
(* Vocabulary of the properties.                                           *)
(***************************************************************************)
\* The handler has returned or panicked: the request is over.
Finished == pc \in {"done", "panicked"}

\* fetchSchemaImmutableTraits was called for this request.
LookupCalled == Len(trail) >= 2

\* ... and returned a set without an error.
LookupSucceeded ==
    /\ LookupCalled
    /\ lookupErr = <<>>
    /\ ~(pc = "panicked" /\ Len(trail) = 2)

\* The registry was configured, reachable, answered 200 and sent a schema.
RegistryAnswered ==
    /\ registry.url # ""
    /\ registry.reach
    /\ RegistryStatus(registry, payload.SchemaID) = StatusOK
    /\ registry.parse

\* The schema carries the read-only annotation with the value true on a.
FlaggedReadOnly(a) ==
    /\ a \in DOMAIN registry.props
    /\ registry.props[a] = Props(TRUE, JBool(TRUE))

\* new_traits holds a value under a that is not the value old_traits holds.
PresentAndDiffers(a) ==
    /\ a \in DOMAIN payload.NewTraits
    /\ payload.NewTraits[a] # Index(payload.OldTraits, a)

\* The positions of the containers for a among the violations collected, and
\* in the payload written to the client.
ViolationsFor(a) == {i \in 1..Len(response) : response[i].InstancePtr = Pointer(a)}

ContainersFor(a) ==
    {i \in 1..Len(w.body.json) : w.body.json[i].instance_ptr = Pointer(a)}

\* C1: a request that decodes and whose lookup succeeds is answered 409 with
\* the rejection payload iff an immutable trait is present in new_traits with
\* a value different from the old one, and 200 with an empty body otherwise.
C1_ConflictIffChanged ==
    (Finished /\ LookupSucceeded) =>
        IF \E a \in immutableTraits : PresentAndDiffers(a)
        THEN /\ pc = "done"
             /\ w.status = StatusConflict
             /\ w.body.json # <<>>
             /\ w.body.json = Encode(response)
        ELSE /\ pc = "done"
             /\ w.status = StatusOK
             /\ w.body = NoBody

\* C2: an immutable trait that new_traits contains with a value different
\* from the one in old_traits (missing counting as nil) gets exactly one
\* violation.
C2_ChangedGivesOneViolation ==
    (Finished /\ LookupSucceeded) =>
        \A a \in immutableTraits :
            PresentAndDiffers(a) => Cardinality(ViolationsFor(a)) = 1

\* C3: an immutable trait whose new value equals its old value, whatever the
\* kind of value, gets no violation and the request completes normally.
C3_EqualGivesNoViolation ==
    (Finished /\ LookupSucceeded) =>
        \A a \in immutableTraits :
            Index(payload.NewTraits, a) = Index(payload.OldTraits, a)
                => pc = "done" /\ ViolationsFor(a) = {} /\ ContainersFor(a) = {}

\* C4: an immutable trait that new_traits does not contain never gets a
\* violation, whatever old_traits holds for it.
C4_AbsentNeverFlagged ==
    \A a \in immutableTraits :
        a \notin DOMAIN payload.NewTraits
            => ViolationsFor(a) = {} /\ ContainersFor(a) = {}

C4_Witness ==
    /\ pc = "done"
    /\ w.status = StatusOK
    /\ \E a \in immutableTraits :
        /\ a \notin DOMAIN payload.NewTraits
        /\ a \in DOMAIN payload.OldTraits
        /\ payload.OldTraits[a] # Nil

\* C5: every violation is for a trait the schema flags read-only, and when the
\* schema flags none the violation list is empty and the answer is 200.
C5_OnlyReadOnlyReported ==
    /\ \A i \in 1..Len(response) :
          \E a \in TraitNames : FlaggedReadOnly(a) /\ i \in ViolationsFor(a)
    /\ \A i \in 1..Len(w.body.json) :
          \E a \in TraitNames : FlaggedReadOnly(a) /\ i \in ContainersFor(a)
    /\ (Finished /\ LookupSucceeded /\ ~\E a \in TraitNames : FlaggedReadOnly(a))
          => /\ pc = "done"
             /\ response = <<>>
             /\ w.status = StatusOK
             /\ w.body = NoBody

C5_Witness ==
    /\ pc = "done"
    /\ w.status = StatusOK
    /\ RegistryAnswered
    /\ \E a \in DOMAIN registry.props : registry.props[a] = Props(TRUE, JBool(FALSE))
    /\ \A a \in TraitNames : ~FlaggedReadOnly(a) /\ PresentAndDiffers(a)

\* C6: a body that does not decode is answered 400 with "Invalid JSON", and
\* neither the schema lookup nor the check is run for it.
C6_InvalidJSON ==
    (pc # "idle" /\ body \in BadBodies) =>
        /\ pc = "done"
        /\ w.status = StatusBadRequest
        /\ \E i \in 1..Len(w.body.text) : w.body.text[i] = "Invalid JSON"
        /\ trail = <<"decode">>
        /\ registry = NoRegistry

C6_Witness ==
    /\ pc = "done"
    /\ body.syntax
    /\ body.new_traits.t = "string"
    /\ w.status = StatusBadRequest

\* C7: a failed schema lookup is answered 500 with a message that embeds the
\* reason; the lookup is called once and the check is not run.
C7_LookupFailure ==
    (LookupCalled /\ ~RegistryAnswered) =>
        /\ pc = "done"
        /\ lookupErr # <<>>
        /\ registry.url = "" => lookupErr = <<"Kratos URL is not set">>
        /\ w.status = StatusInternalServerError
        /\ w.headerWrites = 1
        /\ w.body.text = <<"Failed to obtain schema immutable traits: ">>
                            \o lookupErr \o <<"\n">>
        /\ w.body.json = <<>>
        /\ trail = <<"decode", "lookup">>

C7_Witness ==
    /\ pc = "done"
    /\ registry.url # ""
    /\ registry.reach
    /\ registry.code = StatusInternalServerError
    /\ w.status = StatusInternalServerError

\* C8: when the registry answers, the lookup succeeds and returns exactly the
\* traits whose annotation is true; a missing, false or non-boolean annotation
\* only excludes the trait.
C8_ExactlyTrueAnnotations ==
    (LookupCalled /\ RegistryAnswered) =>
        /\ LookupSucceeded
        /\ immutableTraits = {a \in TraitNames : FlaggedReadOnly(a)}

\* C9: the payload written holds exactly one container per violated trait and
\* none for any other; each has the pointer "#/traits/<a>" and one message
\* with the fixed id and the type "conflict".
C9_OneContainerPerViolation ==
    (pc = "done" /\ LookupSucceeded) =>
        LET violated == {a \in immutableTraits :
                            /\ Index(payload.NewTraits, a) # Nil
                            /\ Index(payload.NewTraits, a) # Index(payload.OldTraits, a)}
        IN /\ Len(w.body.json) = Cardinality(violated)
           /\ \A a \in violated : Cardinality(ContainersFor(a)) = 1
           /\ \A i \in 1..Len(w.body.json) :
                /\ \E a \in violated : i \in ContainersFor(a)
                /\ Len(w.body.json[i].messages) = 1
                /\ w.body.json[i].messages[1].id = ReadOnlyMessageID
                /\ w.body.json[i].messages[1].type = "conflict"

C9_Witness ==
    /\ pc = "done"
    /\ w.status = StatusConflict
    /\ Cardinality(immutableTraits) = 2
    /\ Len(w.body.json) = 1
    /\ ContainersFor("email") = {1}

\* C10: the status header is written at most once per request.
C10_HeaderWrittenOnce == w.headerWrites <= 1

(***************************************************************************)
(* Two runs of the check on the same inputs.                               *)
(***************************************************************************)
BothOver == \A i \in Runs : checks[i].pc \in {"done", "panicked"}

\* The containers run i wrote, without their order.
Written(i) == {checks[i].w.body.json[k] : k \in 1..Len(checks[i].w.body.json)}

\* C11 as stated: two runs on the same immutable set, old_traits and
\* new_traits end the same way and emit the same containers in the same
\* sequence.
C11_SameSequence ==
    BothOver =>
        /\ checks[1].pc = checks[2].pc
        /\ checks[1].w.body.json = checks[2].w.body.json

\* C11 amended: two runs on the same inputs end the same way (both answer, or
\* both panic) with the same status and the same containers, one per violated
\* trait; the sequence of the containers may differ.
C11_SameContainers ==
    BothOver =>
        /\ checks[1].pc = checks[2].pc
        /\ checks[1].w.status = checks[2].w.status
        /\ Len(checks[1].w.body.json) = Len(checks[2].w.body.json)
        /\ Written(1) = Written(2)
        /\ Cardinality(Written(1)) = Len(checks[1].w.body.json)

C11_Witness ==
    /\ \A i \in Runs : checks[i].pc = "done" /\ checks[i].w.status = StatusConflict
    /\ Len(checks[1].w.body.json) = 2
    /\ checks[1].w.body.json # checks[2].w.body.json

====
